---------------------------- MODULE Spec2Model ----------------------------
(***************************************************************************)
(* A model of tech_stocks_monitor.py: the market clock, the number         *)
(* formatter, the 20-bar moving-average comparison, the index chart and    *)
(* the refresh cycle of main().                                            *)
(*                                                                         *)
(* Prices are integers.  Python's float quotients are modelled as exact    *)
(* rationals <<numerator, denominator>> in lowest terms, so that two       *)
(* results are equal exactly when the quotients are equal.                 *)
(***************************************************************************)
EXTENDS Integers, Sequences, FiniteSets

VARIABLES
    now, market_status,                 \* get_market_status
    number, formatted,                  \* format_number
    df, ma_result,                      \* get_ma_comparison
    time_range, nasdaq_data, chart,     \* the index chart of main
    pc, cycle, idx, info_resp, bars_resp, data, ma_data, cards, shown,
    refresh_interval, slept, active,    \* the refresh cycle of main
    entry, fetch_failed, prev_values    \* its history: how this run was entered,
                                        \* whether a request of this run failed,
                                        \* whether the previous page was complete

clockVars  == <<now, market_status>>
formatVars == <<number, formatted>>
maVars     == <<df, ma_result>>
indexVars  == <<time_range, nasdaq_data, chart>>
cycleVars  == <<pc, cycle, idx, info_resp, bars_resp, data, ma_data, cards,
                shown, refresh_interval, slept, active, entry, fetch_failed,
                prev_values>>
vars == <<clockVars, formatVars, maVars, indexVars, cycleVars>>

\* A result that has not been computed yet: as a status text, as a value.
Pending == "pending"
Unset == [unset |-> TRUE]

(***************************************************************************)
(* Exact rational arithmetic standing for Python float arithmetic.         *)
(***************************************************************************)
Abs(x) == IF x < 0 THEN 0 - x ELSE x

RECURSIVE Gcd(_, _)
Gcd(a, b) == IF b = 0 THEN a ELSE Gcd(b, a % b)

\* n/d in lowest terms with a positive denominator (d # 0).
Frac(n, d) ==
    LET g == Gcd(Abs(n), Abs(d))
        s == IF d < 0 THEN 0 - 1 ELSE 1
    IN  <<s * (n \div g), s * (d \div g)>>

RInt(n) == <<n, 1>>
RSub(a, b) == Frac(a[1] * b[2] - b[1] * a[2], a[2] * b[2])
RMul(a, b) == Frac(a[1] * b[1], a[2] * b[2])
RDiv(a, b) == Frac(a[1] * b[2], a[2] * b[1])
RIsZero(a) == a[1] = 0

(***************************************************************************)
(* get_market_status: the wall clock in America/New_York.                  *)
(***************************************************************************)
MaxSecond == 1
MaxMicrosecond == 1

OPEN == "OPEN"
CLOSED == "CLOSED"

Instants ==
    [weekday : 0..6, hour : 0..23, minute : 0..59,
     second : 0..MaxSecond, microsecond : 0..MaxMicrosecond]

\* now.replace(hour=h, minute=m, second=0, microsecond=0)
Replace(t, h, m) ==
    [t EXCEPT !.hour = h, !.minute = m, !.second = 0, !.microsecond = 0]

\* a <= b for two datetimes of the same date and timezone
DatetimeLeq(a, b) ==
    \/ a.hour < b.hour
    \/ a.hour = b.hour /\ a.minute < b.minute
    \/ a.hour = b.hour /\ a.minute = b.minute /\ a.second < b.second
    \/ a.hour = b.hour /\ a.minute = b.minute /\ a.second = b.second
       /\ a.microsecond <= b.microsecond

get_market_status(t) ==
    IF t.weekday >= 5 THEN CLOSED
    ELSE LET market_open == Replace(t, 9, 30)
             market_close == Replace(t, 16, 0)
         IN  IF DatetimeLeq(market_open, t) /\ DatetimeLeq(t, market_close)
             THEN OPEN
             ELSE CLOSED

ClockIdle == now = [weekday |-> 0, hour |-> 0, minute |-> 0, second |-> 0,
                    microsecond |-> 0] /\ market_status = Pending

ReadMarketStatus ==
    /\ market_status = Pending
    /\ market_status' = get_market_status(now)
    /\ UNCHANGED <<now, formatVars, maVars, indexVars, cycleVars>>

(***************************************************************************)
(* format_number.  A Python value is a record of its type and, for an int, *)
(* its value.  The text f"{q:.2f}{suffix}" is the record of the quotient   *)
(* rounded to hundredths and the suffix; "N/A" is the sentinel.            *)
(***************************************************************************)
MaxMantissa == 15

RECURSIVE Pow10(_)
Pow10(k) == IF k = 0 THEN 1 ELSE 10 * Pow10(k - 1)

Billion == 1000000000
Million == 1000000
Thousand == 1000

PyInt(n) == [type |-> "int", value |-> n]
PyNone == [type |-> "NoneType", value |-> 0]
PyStr == [type |-> "str", value |-> 0]

\* Magnitudes m * 10^k (k up to 8: TLC's integers have 32 bits) and
\* their neighbours, the small negatives, and the values that are no numbers.
Numbers ==
    {PyInt(m * Pow10(k) + d) : m \in 1..MaxMantissa, k \in 0..8,
                               d \in {0 - 1, 0, 1}}
    \cup {PyInt(0 - m * Pow10(k)) : m \in 1..MaxMantissa, k \in 0..3}
    \cup {PyInt(2500), PyNone, PyStr}

NA == [text |-> "N/A", hundredths |-> 0, suffix |-> ""]

\* round(n / scale, 2) in hundredths, to nearest (scale is 1 or a multiple
\* of 100; the inputs have no ties).
Hundredths(n, scale) ==
    IF scale = 1 THEN n * 100
    ELSE LET unit == scale \div 100
             q == n \div unit
             r == n % unit
         IN  IF 2 * r >= unit THEN q + 1 ELSE q

Fixed2(n, scale, suffix) ==
    [text |-> "%.2f", hundredths |-> Hundredths(n, scale), suffix |-> suffix]

\* format_number with the thousands compared by > instead of >=
format_number_strict(x) ==
    IF x.type # "int" THEN NA
    ELSE IF x.value >= Billion THEN Fixed2(x.value, Billion, "B")
    ELSE IF x.value >= Million THEN Fixed2(x.value, Million, "M")
    ELSE IF x.value > Thousand THEN Fixed2(x.value, Thousand, "K")
    ELSE Fixed2(x.value, 1, "")

\* number >= k raises TypeError for None and for a str; the bare except
\* turns every exception into "N/A".
format_number(x) ==
    IF x.type # "int" THEN NA
    ELSE IF x.value >= Billion THEN Fixed2(x.value, Billion, "B")
    ELSE IF x.value >= Million THEN Fixed2(x.value, Million, "M")
    ELSE IF x.value >= Thousand THEN Fixed2(x.value, Thousand, "K")
    ELSE Fixed2(x.value, 1, "")

FormatIdle == number = PyNone /\ formatted = Unset

FormatNumber ==
    /\ formatted = Unset
    /\ formatted' = format_number(number)
    /\ UNCHANGED <<number, clockVars, maVars, indexVars, cycleVars>>

(***************************************************************************)
(* The provider's answer to a bar request (Ticker.history, yf.download):   *)
(* the call raises, or returns the closes of its rows, oldest first.       *)
(***************************************************************************)
MaxBars == 22
MaxClose == 2

None == [available |-> FALSE]

Raised == [raises |-> TRUE, closes |-> <<>>]
Frame(closes) == [raises |-> FALSE, closes |-> closes]

\* len bars: the first k close at a, the others at b.
StepSeq(len, k, a, b) == [j \in 1..len |-> IF j <= k THEN a ELSE b]

BarResponses ==
    {Raised} \cup
    {Frame(StepSeq(len, k, a, b)) :
        len \in 0..MaxBars, k \in 0..MaxBars, a \in 0..MaxClose, b \in 0..MaxClose}

RECURSIVE SumFrom(_, _, _)
SumFrom(closes, lo, hi) ==
    IF lo > hi THEN 0 ELSE closes[lo] + SumFrom(closes, lo + 1, hi)

(***************************************************************************)
(* get_ma_comparison                                                       *)
(***************************************************************************)
Window == 20

\* df['Close'].rolling(window=w).mean().iloc[-1], for Len(closes) >= w
RollingMeanLast(closes, w) ==
    Frac(SumFrom(closes, Len(closes) - w + 1, Len(closes)), w)

\* ((current - base) / base) * 100, for base # 0
PercentOf(current, base) ==
    RMul(RDiv(RSub(current, base), base), RInt(100))

get_ma_comparison(resp) ==
    IF resp.raises THEN None
    ELSE IF Len(resp.closes) # 0 /\ Len(resp.closes) >= Window
    THEN LET current_price == RInt(resp.closes[Len(resp.closes)])
             ma20 == RollingMeanLast(resp.closes, Window)
         IN  IF RIsZero(ma20)
             THEN None      \* ZeroDivisionError, caught by the except
             ELSE [available |-> TRUE, ma20 |-> ma20,
                   diff_percent |-> PercentOf(current_price, ma20)]
    ELSE None

MaIdle == df = Raised /\ ma_result = Unset

GetMaComparison ==
    /\ ma_result = Unset
    /\ ma_result' = get_ma_comparison(df)
    /\ UNCHANGED <<df, clockVars, formatVars, indexVars, cycleVars>>

(***************************************************************************)
(* The index chart of main: get_stock_data("^IXIC", ...) and the figure    *)
(* with its moving-average overlays.                                       *)
(***************************************************************************)
TimeRanges ==
    {<<"1d", "1m">>, <<"5d", "5m">>, <<"1mo", "1h">>, <<"3mo", "1d">>,
     <<"1y", "1d">>}

Periods == {5, 10, 20}

get_stock_data(resp) ==
    IF resp.raises THEN None
    ELSE IF Len(resp.closes) # 0
    THEN [available |-> TRUE, closes |-> resp.closes]
    ELSE None

NoChart == [kind |-> "none", overlays |-> {}]

IndexChart(frame) ==
    IF frame.available /\ Len(frame.closes) # 0
    THEN [kind |-> "figure",
          overlays |-> {p \in Periods : Len(frame.closes) > p}]
    ELSE [kind |-> "error", overlays |-> {}]

IndexIdle ==
    time_range = <<"1d", "1m">> /\ nasdaq_data = Unset /\ chart = NoChart

\* The flat index series of every length, and the failed request.
IndexResponses ==
    {Raised} \cup {Frame(StepSeq(len, len, 1, 1)) : len \in 0..MaxBars}

DrawIndex ==
    /\ nasdaq_data = Unset
    /\ \E resp \in IndexResponses :
          /\ nasdaq_data' = get_stock_data(resp)
          /\ chart' = IndexChart(get_stock_data(resp))
    /\ UNCHANGED <<time_range, clockVars, formatVars, maVars, cycleVars>>

(***************************************************************************)
(* get_stock_info.  The provider's answer to a snapshot request: the call  *)
(* raises, or returns the rows of today's history (their last close and    *)
(* volume) and the info dictionary, in which a key may be missing or hold  *)
(* None.                                                                   *)
(***************************************************************************)
Missing == [present |-> FALSE, null |-> FALSE, value |-> 0]
Null == [present |-> TRUE, null |-> TRUE, value |-> 0]
Value(v) == [present |-> TRUE, null |-> FALSE, value |-> v]

Snapshot(rows, close, prev, cap) ==
    [raises |-> FALSE, rows |-> rows, close |-> close, volume |-> 1000,
     previousClose |-> prev, marketCap |-> cap]

SnapshotRaised == [Snapshot(0, 0, Missing, Missing) EXCEPT !.raises = TRUE]

InfoResponses ==
    {SnapshotRaised,
     Snapshot(0, 0, Missing, Missing),
     Snapshot(1, 2, Value(1), Value(3000)),
     Snapshot(1, 2, Value(0), Value(3000)),
     Snapshot(1, 2, Missing, Missing),
     Snapshot(1, 2, Null, Value(3000))}

\* info.get(key, default)
DictGet(item, default) == IF item.present THEN item ELSE Value(default)

get_stock_info(resp) ==
    IF resp.raises THEN None
    ELSE IF resp.rows > 0
    THEN LET current_price == resp.close
             prev == DictGet(resp.previousClose, current_price)
             cap == DictGet(resp.marketCap, 0)
         IN  IF prev.null \/ cap.null
             THEN None      \* float(None): TypeError, caught by the except
             ELSE [available |-> TRUE, price |-> current_price,
                   prev_close |-> prev.value, volume |-> resp.volume,
                   market_cap |-> cap.value]
    ELSE None

(***************************************************************************)
(* The refresh cycle of main.                                              *)
(***************************************************************************)
MaxCycles == 2

magnificent_seven ==
    <<"MSFT", "AAPL", "GOOGL", "NVDA", "AMZN", "META", "TSLA">>

Symbols == {magnificent_seven[j] : j \in 1..Len(magnificent_seven)}

RefreshIntervals == {0, 30, 60, 300}

NoData == [kind |-> "No data"]

\* The body of one card: the four values, "No data", or the exception that
\* the division raises.
CardBody(d, m) ==
    IF d.available /\ m.available
    THEN IF d.prev_close = 0
         THEN [kind |-> "ZeroDivisionError"]
         ELSE [kind |-> "values",
               price |-> RInt(d.price),
               change_percent |-> PercentOf(RInt(d.price), RInt(d.prev_close)),
               ma20 |-> m.ma20,
               diff_percent |-> m.diff_percent]
    ELSE NoData

BlankPage == [s \in Symbols |-> "none"]

\* The answers of the provider in a cycle: to the index request, and to the
\* bar request of a symbol (19 bars, 20 bars closing at 0, 20 and 21 bars).
CycleIndexResponses ==
    {Raised, Frame(<<>>), Frame(StepSeq(Window + 1, 0, 1, 1))}

CycleBarResponses ==
    {Raised, Frame(<<>>), Frame(StepSeq(Window - 1, 0, 1, 1)),
     Frame(StepSeq(Window, 0, 0, 0)), Frame(StepSeq(Window, Window - 1, 1, 2)),
     Frame(StepSeq(Window + 1, 1, 0, 1))}

CycleInit ==
    /\ pc = "index"
    /\ cycle = 1
    /\ active = 1
    /\ idx = 0
    /\ info_resp = Unset
    /\ bars_resp = Unset
    /\ data = Unset
    /\ ma_data = Unset
    /\ cards = BlankPage
    /\ shown = Unset
    /\ refresh_interval = 0
    /\ slept = 0
    /\ entry = "start"
    /\ fetch_failed = FALSE
    /\ prev_values = FALSE

CycleIdle == CycleInit

\* A request fails when the call raises or returns no rows.
SnapshotFailed(resp) == resp.raises \/ resp.rows = 0
BarsFailed(resp) == resp.raises \/ Len(resp.closes) = 0

\* A rerun that keeps the cards and the values of the run before it, as a
\* cache across runs would.
RerunKeepingPage ==
    /\ cycle < MaxCycles
    /\ cycle' = cycle + 1
    /\ active' = (active - 1) + 1
    /\ pc' = "index"
    /\ idx' = 0
    /\ info_resp' = Unset
    /\ bars_resp' = Unset
    /\ UNCHANGED <<data, ma_data, cards, shown>>
    /\ slept' = 0
    /\ nasdaq_data' = Unset
    /\ chart' = NoChart
    /\ fetch_failed' = FALSE
    /\ prev_values' = (\A s \in Symbols : cards[s] = "values")

\* st.rerun(): the run is unwound and main starts again on a blank page.
Rerun ==
    /\ cycle < MaxCycles
    /\ cycle' = cycle + 1
    /\ active' = (active - 1) + 1
    /\ pc' = "index"
    /\ idx' = 0
    /\ info_resp' = Unset
    /\ bars_resp' = Unset
    /\ data' = Unset
    /\ ma_data' = Unset
    /\ cards' = BlankPage
    /\ shown' = Unset
    /\ slept' = 0
    /\ nasdaq_data' = Unset
    /\ chart' = NoChart
    /\ fetch_failed' = FALSE
    /\ prev_values' = (\A s \in Symbols : cards[s] = "values")

\* Lines 129-167: the index request and its chart.
LoadIndex ==
    /\ pc = "index"
    /\ \E resp \in CycleIndexResponses :
          /\ nasdaq_data' = get_stock_data(resp)
          /\ chart' = IndexChart(get_stock_data(resp))
    /\ pc' = "load"
    /\ UNCHANGED <<cycle, active, idx, info_resp, bars_resp, data, ma_data,
                   cards, shown, refresh_interval, slept, entry, fetch_failed,
                   prev_values, time_range, clockVars, formatVars, maVars>>

\* Lines 193-215: the header of the next card and the two requests.
LoadSymbol ==
    /\ pc = "load"
    /\ idx < Len(magnificent_seven)
    /\ \E r1 \in InfoResponses, r2 \in CycleBarResponses :
          /\ info_resp' = r1
          /\ bars_resp' = r2
          /\ data' = get_stock_info(r1)
          /\ ma_data' = get_ma_comparison(r2)
          /\ fetch_failed' =
                (fetch_failed \/ SnapshotFailed(r1) \/ BarsFailed(r2))
    /\ cards' = [cards EXCEPT ![magnificent_seven[idx + 1]] = "header"]
    /\ pc' = "render"
    /\ UNCHANGED <<cycle, active, idx, shown, refresh_interval, slept, entry,
                   prev_values, indexVars, clockVars, formatVars, maVars>>

\* Lines 217-254: the body of the card.  The exception that the division
\* raises leaves main.
RenderCard ==
    /\ pc = "render"
    /\ LET body == CardBody(data, ma_data)
       IN  IF body.kind = "ZeroDivisionError"
           THEN /\ pc' = "aborted"
                /\ active' = active - 1
                /\ UNCHANGED <<idx, cards, shown, info_resp, bars_resp>>
           ELSE /\ cards' = [cards EXCEPT ![magnificent_seven[idx + 1]] = body.kind]
                /\ shown' = body
                /\ idx' = idx + 1
                /\ pc' = IF idx + 1 = Len(magnificent_seven)
                         THEN "controls" ELSE "load"
                /\ info_resp' = Unset
                /\ bars_resp' = Unset
                /\ active' = active
    /\ UNCHANGED <<cycle, data, ma_data, refresh_interval, slept, entry,
                   fetch_failed, prev_values, indexVars, clockVars, formatVars,
                   maVars>>

\* Lines 258-268: the interval is read; a click on the button reruns.
ClickRefresh ==
    /\ pc = "controls"
    /\ \E interval \in RefreshIntervals : refresh_interval' = interval
    /\ Rerun
    /\ entry' = "button"
    /\ UNCHANGED <<time_range, clockVars, formatVars, maVars>>

\* Lines 258-271: the interval is read, the button is not clicked, the
\* last-updated line is written.
ShowUpdated ==
    /\ pc = "controls"
    /\ \E interval \in RefreshIntervals : refresh_interval' = interval
    /\ pc' = "updated"
    /\ UNCHANGED <<cycle, active, idx, info_resp, bars_resp, data, ma_data,
                   cards, shown, slept, entry, fetch_failed, prev_values,
                   indexVars, clockVars, formatVars, maVars>>

\* A sleep that returns at once.
SleepReturnsAtOnce ==
    /\ pc = "updated"
    /\ refresh_interval > 0
    /\ slept' = 0
    /\ pc' = "wake"
    /\ UNCHANGED <<cycle, active, idx, info_resp, bars_resp, data, ma_data,
                   cards, shown, refresh_interval, entry, fetch_failed,
                   prev_values, indexVars, clockVars, formatVars, maVars>>

\* Line 275: time.sleep(refresh_interval[1])
Sleep ==
    /\ pc = "updated"
    /\ refresh_interval > 0
    /\ slept' = refresh_interval
    /\ pc' = "wake"
    /\ UNCHANGED <<cycle, active, idx, info_resp, bars_resp, data, ma_data,
                   cards, shown, refresh_interval, entry, fetch_failed,
                   prev_values, indexVars, clockVars, formatVars, maVars>>

\* Line 276: st.rerun() after the sleep
AutoRerun ==
    /\ pc = "wake"
    /\ Rerun
    /\ entry' = "timer"
    /\ UNCHANGED <<refresh_interval, time_range, clockVars, formatVars, maVars>>

\* Line 274 with the interval off: main returns.
Finish ==
    /\ pc = "updated"
    /\ refresh_interval = 0
    /\ pc' = "ended"
    /\ active' = active - 1
    /\ UNCHANGED <<cycle, idx, info_resp, bars_resp, data, ma_data, cards,
                   shown, refresh_interval, slept, entry, fetch_failed,
                   prev_values, indexVars, clockVars, formatVars, maVars>>

(***************************************************************************)
(* The specifications.                                                     *)
(***************************************************************************)
ClockInit ==
    /\ now \in Instants
    /\ market_status = Pending
    /\ FormatIdle /\ MaIdle /\ IndexIdle /\ CycleIdle

ClockNext == ReadMarketStatus

ClockSpec == ClockInit /\ [][ClockNext]_vars

FormatInit ==
    /\ number \in Numbers
    /\ formatted = Unset
    /\ ClockIdle /\ MaIdle /\ IndexIdle /\ CycleIdle

FormatNext == FormatNumber

FormatSpec == FormatInit /\ [][FormatNext]_vars

MaInit ==
    /\ df \in BarResponses
    /\ ma_result = Unset
    /\ ClockIdle /\ FormatIdle /\ IndexIdle /\ CycleIdle

MaNext == GetMaComparison

MaSpec == MaInit /\ [][MaNext]_vars

IndexInit ==
    /\ time_range \in TimeRanges
    /\ nasdaq_data = Unset
    /\ chart = NoChart
    /\ ClockIdle /\ FormatIdle /\ MaIdle /\ CycleIdle

IndexNext == DrawIndex

IndexSpec == IndexInit /\ [][IndexNext]_vars

Init == ClockIdle /\ FormatIdle /\ MaIdle /\ IndexIdle /\ CycleInit

Next ==
    \/ LoadIndex
    \/ LoadSymbol
    \/ RenderCard
    \/ ClickRefresh
    \/ ShowUpdated
    \/ Sleep
    \/ AutoRerun
    \/ Finish

Spec == Init /\ [][Next]_vars

(***************************************************************************)
(* The claims.                                                             *)
(***************************************************************************)

\* C1: on Saturday and Sunday the status is CLOSED; on the other days it is
\* OPEN exactly when 09:30 <= t < 16:00, so 16:00:00 itself is CLOSED.
C1_MarketStatusHalfOpen ==
    market_status # Pending =>
        market_status =
            IF now.weekday \in {5, 6} THEN CLOSED
            ELSE IF /\ (now.hour > 9 \/ (now.hour = 9 /\ now.minute >= 30))
                    /\ now.hour < 16
                 THEN OPEN
                 ELSE CLOSED

\* The symbols whose card has been started in this run, and those whose
\* card is complete.
Started == IF pc \in {"render", "aborted"} THEN idx + 1 ELSE idx
BetweenCards == pc \notin {"index", "render", "aborted"} /\ idx > 0
Obtained(item) == item.present /\ ~item.null

\* C2: a percent metric is computed only from two obtained operands and a
\* non-zero baseline: the change against a previous close that the provider
\* gave and that is not zero, the deviation against a non-zero mean; never
\* from a substituted value, never as a division by zero.
C2_PercentOnlyFromObtainedOperands ==
    pc = "render" =>
        /\ ma_data.available =>
              /\ ~bars_resp.raises
              /\ Len(bars_resp.closes) >= Window
              /\ ~RIsZero(RollingMeanLast(bars_resp.closes, Window))
        /\ data.available /\ ma_data.available =>
              /\ Obtained(info_resp.previousClose)
              /\ info_resp.previousClose.value # 0
              /\ CardBody(data, ma_data).kind = "values"

\* C3: in a cycle in which a request of some symbol failed, that symbol is
\* shown as unavailable, the cycle goes on, and each symbol whose own
\* requests succeeded has its four values computed and displayed.
C3_FailureIsolation ==
    fetch_failed =>
        /\ pc # "aborted"
        /\ pc = "render" /\ data.available /\ ma_data.available =>
              CardBody(data, ma_data).kind = "values"
        /\ BetweenCards /\ ~(data.available /\ ma_data.available) =>
              cards[magnificent_seven[idx]] = "No data"

\* C4: whatever fails, no exception leaves main, and a cycle that is past
\* the cards has rendered all seven of them.
C4_CycleRunsToCompletion ==
    /\ pc # "aborted"
    /\ pc \in {"controls", "updated", "wake", "ended"} =>
          \A s \in Symbols : cards[s] \in {"values", "No data"}

\* C5: with fewer than 20 bars the comparison is unavailable; with at least
\* 20 bars ma20 is the mean of the closes of the last 20 bars, and
\* diff_percent is taken between the last close and that mean.
C5_MovingAverageOfLast20 ==
    ma_result # Unset /\ ~df.raises =>
        LET n == Len(df.closes)
        IN  IF n < 20 THEN ma_result = None
            ELSE /\ ma_result.available
                 /\ ma_result.ma20[1] * 20
                      = SumFrom(df.closes, n - 19, n) * ma_result.ma20[2]
                 /\ RMul(ma_result.diff_percent, ma_result.ma20)
                      = RMul(RSub(RInt(df.closes[n]), ma_result.ma20), RInt(100))

\* C6: format_number never raises: a number gets the largest scale among
\* billions, millions, thousands and units that applies to it, and is
\* divided by that scale; None and what is no number give "N/A".
Scales == {<<Billion, "B">>, <<Million, "M">>, <<Thousand, "K">>, <<1, "">>}
Applies(scale, n) == scale[1] = 1 \/ n >= scale[1]
LargestScale(n) ==
    CHOOSE sc \in Scales :
        /\ Applies(sc, n)
        /\ \A other \in Scales : Applies(other, n) => other[1] <= sc[1]

C6_FormatNumber ==
    formatted # Unset =>
        IF number.type = "int"
        THEN LET sc == LargestScale(number.value)
                 unit == sc[1] \div 100
             IN  /\ formatted.text = "%.2f"
                 /\ formatted.suffix = sc[2]
                 /\ IF sc[1] = 1
                    THEN formatted.hundredths = number.value * 100
                    ELSE 2 * Abs(formatted.hundredths * unit - number.value)
                            <= unit
        ELSE formatted = NA

C6_Witness ==
    /\ number = PyInt(1500000000)
    /\ formatted = [text |-> "%.2f", hundredths |-> 150, suffix |-> "B"]

\* C7: one cycle at a time; the timer re-enters only from a cycle that has
\* rendered every symbol and then slept for the selected interval of 30, 60
\* or 300 seconds; with the interval off the cycle ends without sleeping
\* and is not re-entered.
C7_SequentialCycles ==
    /\ [](active <= 1)
    /\ [][entry' = "timer" /\ cycle' # cycle =>
            /\ pc = "wake"
            /\ refresh_interval \in {30, 60, 300}
            /\ slept = refresh_interval
            /\ \A s \in Symbols : cards[s] \in {"values", "No data"}]_vars
    /\ [][pc = "updated" /\ refresh_interval = 0 =>
            pc' = "ended" /\ slept' = 0 /\ cycle' = cycle]_vars
    /\ [][pc = "ended" => pc' = "ended" /\ cycle' = cycle]_vars

C7_Witness ==
    /\ cycle = 2
    /\ entry = "timer"
    /\ pc = "wake"
    /\ slept = 300

\* C8: on the index chart the overlay of window p is drawn exactly when the
\* index series has at least p bars.
C8_OverlayFromPBars ==
    chart.kind = "figure" =>
        \A p \in Periods :
            p \in chart.overlays <=> Len(nasdaq_data.closes) >= p

\* C9: what a cycle displays comes from the requests of that cycle alone: a
\* run starts from a blank page and from no values, each card is computed
\* from the answers given in this run, and nothing of the run before is
\* left on the page.
C9_NoCarryOver ==
    /\ \A j \in 1..Len(magnificent_seven) :
          j > Started => cards[magnificent_seven[j]] = "none"
    /\ Started = 0 => shown = Unset /\ data = Unset /\ ma_data = Unset
    /\ pc = "index" => chart = NoChart /\ nasdaq_data = Unset
    /\ pc \in {"render", "aborted"} =>
          /\ data = get_stock_info(info_resp)
          /\ ma_data = get_ma_comparison(bars_resp)
    /\ BetweenCards =>
          /\ shown = CardBody(data, ma_data)
          /\ cards[magnificent_seven[idx]] = shown.kind

\* Every card of the run before showed values; in this run the first
\* symbol's request failed and its card shows "No data".
C9_Witness ==
    /\ cycle = 2
    /\ prev_values
    /\ pc = "load"
    /\ idx = 1
    /\ fetch_failed
    /\ cards[magnificent_seven[1]] = "No data"
    /\ shown = NoData

\* C10: each card whose requests are done has exactly one of the two bodies:
\* the four values when both the snapshot and the comparison are available,
\* "No data" and no value otherwise.
C10_AllOrNothingCard ==
    /\ \A j \in 1..Len(magnificent_seven) :
          (j <= idx \/ (pc = "aborted" /\ j = idx + 1)) =>
              cards[magnificent_seven[j]] \in {"values", "No data"}
    /\ BetweenCards =>
          IF data.available /\ ma_data.available
          THEN /\ cards[magnificent_seven[idx]] = "values"
               /\ DOMAIN shown = {"kind", "price", "change_percent", "ma20",
                                  "diff_percent"}
          ELSE /\ cards[magnificent_seven[idx]] = "No data"
               /\ shown = NoData

============================================================================
